---------------------------- MODULE Spec2Model ----------------------------
(***************************************************************************)
(* Snakes & Ladders "power up" solver (src/app.py).                        *)
(*                                                                         *)
(* Three specifications over one set of variables:                         *)
(*   Spec            : find_winning_solution, called twice in a row on one *)
(*                     board (total_squares, jumps), one action per loop   *)
(*                     iteration of the breadth-first loop and of the      *)
(*                     greedy fallback loop;                               *)
(*   CoordSpec       : coord_to_square applied to pixel points of a        *)
(*                     width x height board;                               *)
(*   ParseSpec       : parse_svg_board, one action per element that its    *)
(*                     loop over the document iterates.                    *)
(***************************************************************************)
EXTENDS Integers, Sequences, FiniteSets

VARIABLES
    total_squares,   \* argument of find_winning_solution
    jumps,           \* argument of find_winning_solution: square -> square
    pc,              \* position in find_winning_solution
    queue,           \* deque of (pos, dice_type, rolls, visited_squares)
    visited_states,  \* set of (pos, dice_type)
    best_solution,   \* None, or the rolls of the best goal entry so far
    best_coverage,   \* numerator of best_coverage (denominator total_squares)
    iterations,      \* loop counter of the breadth-first loop
    g_pos,           \* greedy fallback: pos
    g_dice,          \* greedy fallback: dice_type
    g_rolls,         \* greedy fallback: rolls
    g_visited,       \* greedy fallback: visited
    g_round,         \* greedy fallback: rounds of the for loop already run
    result,          \* the value returned by the current call
    call,            \* 1 during the first call, 2 during the second
    prev_result,     \* the value the first call returned
    dequeued_goals,  \* history: the goal entries dequeued by this call, in order
    enqueued,        \* history: the (pos, dice_type) pairs this call appended to
                     \* the queue, in order
    width_px,        \* parse_svg_board: width of the drawing in pixels
    height_px,       \* parse_svg_board: height of the drawing in pixels
    doc,             \* parse_svg_board: the elements iterated so far, in order
    width,           \* coord_to_square: width in squares
    height,          \* coord_to_square: height in squares
    px,              \* coord_to_square: x of the last point mapped
    py,              \* coord_to_square: y of the last point mapped
    square           \* coord_to_square: its last return value

vars == <<total_squares, jumps, pc, queue, visited_states, best_solution,
          best_coverage, iterations, g_pos, g_dice, g_rolls, g_visited,
          g_round, result, call, prev_result, dequeued_goals, enqueued,
          width_px, height_px, doc, width, height, px, py, square>>

coord_vars == <<width, height, px, py, square>>

parse_vars == <<width_px, height_px, doc>>

---------------------------------------------------------------------------
(* Bounds of the model *)

\* boards of 0..SmallSquares squares carry any jumps mapping
SmallSquares == 3

\* boards of SmallSquares+1..MaxSquares squares carry at most MaxJumps jumps
MaxSquares == 7
MaxJumps == 1

\* cap of the breadth-first loop. The source sets 100000 (app.py line 97); the
\* frontier of that many iterations is out of reach of exhaustive checking, so
\* the loop runs here under a smaller cap, and every statement about the cap
\* is made of max_iterations, whatever its value
max_iterations == 13

\* rounds of the greedy fallback loop; the source runs range(1000) (line 135)
GreedyRounds == 3

\* coord_to_square is applied on boards of 1..MaxWidth by 1..MaxHeight squares
MaxWidth == 3
MaxHeight == 3

\* parse_svg_board: the extents of the drawing go up to MaxExtent half
\* squares, and a document has at most MaxLines elements
MaxExtent == 5
MaxLines == 2

(* Program constants *)

SQUARE_SIZE == 32

\* "if len(rolls) > 1000: continue"
MaxRolls == 1000

\* Python's None
None == <<>>

REGULAR == 0
POWER == 1

Faces == 1..6

---------------------------------------------------------------------------
(* simulate_move *)

\* the jump taken before the reflection instead of after it
simulate_move_JumpFirst(pos, face, dice_type, total, jmp) ==
    LET move == IF dice_type = 0 THEN face ELSE 2^face
        next_dice == IF dice_type = 0
                     THEN (IF face = 6 THEN 1 ELSE 0)
                     ELSE (IF face = 1 THEN 0 ELSE 1)
        p1 == pos + move
        p2 == IF p1 \in DOMAIN jmp THEN jmp[p1] ELSE p1
        p3 == IF p2 > total THEN total - (p2 - total) ELSE p2
    IN  <<p3, next_dice>>

\* the die kind decided by the square landed on: landing on a jump source
\* powers the die up
simulate_move_DiceByPos(pos, face, dice_type, total, jmp) ==
    LET move == IF dice_type = 0 THEN face ELSE 2^face
        p1 == pos + move
        p2 == IF p1 > total THEN total - (p1 - total) ELSE p1
        p3 == IF p2 \in DOMAIN jmp THEN jmp[p2] ELSE p2
        next_dice == IF dice_type = 0
                     THEN (IF face = 6 \/ p2 \in DOMAIN jmp THEN 1 ELSE 0)
                     ELSE (IF face = 1 THEN 0 ELSE 1)
    IN  <<p3, next_dice>>

\* the die kind never changing
simulate_move_StayRegular(pos, face, dice_type, total, jmp) ==
    LET move == IF dice_type = 0 THEN face ELSE 2^face
        p1 == pos + move
        p2 == IF p1 > total THEN total - (p1 - total) ELSE p1
        p3 == IF p2 \in DOMAIN jmp THEN jmp[p2] ELSE p2
    IN  <<p3, dice_type>>

\* no jump applied
simulate_move_NoJump(pos, face, dice_type, total, jmp) ==
    LET move == IF dice_type = 0 THEN face ELSE 2^face
        next_dice == IF dice_type = 0
                     THEN (IF face = 6 THEN 1 ELSE 0)
                     ELSE (IF face = 1 THEN 0 ELSE 1)
        p1 == pos + move
        p2 == IF p1 > total THEN total - (p1 - total) ELSE p1
    IN  <<p2, next_dice>>

\* the power die moving by 2^(face+1)
simulate_move_BigPower(pos, face, dice_type, total, jmp) ==
    LET move == IF dice_type = 0 THEN face ELSE 2^(face + 1)
        next_dice == IF dice_type = 0
                     THEN (IF face = 6 THEN 1 ELSE 0)
                     ELSE (IF face = 1 THEN 0 ELSE 1)
        p1 == pos + move
        p2 == IF p1 > total THEN total - (p1 - total) ELSE p1
        p3 == IF p2 \in DOMAIN jmp THEN jmp[p2] ELSE p2
    IN  <<p3, next_dice>>

\* returns <<next_pos, next_dice>>
simulate_move(pos, face, dice_type, total, jmp) ==
    LET move == IF dice_type = 0 THEN face ELSE 2^face
        next_dice == IF dice_type = 0
                     THEN (IF face = 6 THEN 1 ELSE 0)
                     ELSE (IF face = 1 THEN 0 ELSE 1)
        p1 == pos + move
        p2 == IF p1 > total THEN total - (p1 - total) ELSE p1
        p3 == IF p2 \in DOMAIN jmp THEN jmp[p2] ELSE p2
    IN  <<p3, next_dice>>

---------------------------------------------------------------------------
(* find_winning_solution: the breadth-first loop *)

\* queue.append((0, 0, [], set([0])))
StartEntry == [pos |-> 0, dice_type |-> 0, rolls |-> <<>>, visited_squares |-> {0}]

\* visited_states = set(); visited_states.add((0, 0))
FreshVisitedStates(old) == {<<0, 0>>}

\* best_coverage surviving from the previous call
FreshBestCoverage_Kept(old) == old

\* best_coverage = 0
FreshBestCoverage(old) == 0

\* "while queue", the iteration cap not tested
LoopContinues_NoCap(q, it) == q # <<>>

\* while queue and iterations < max_iterations
LoopContinues(q, it) == q # <<>> /\ it < max_iterations

\* queue.pop(): the newest entry instead of the oldest
popleft_Newest(q) == <<q[Len(q)], SubSeq(q, 1, Len(q) - 1)>>

\* queue.popleft(): <<the entry, the rest of the queue>>
popleft(q) == <<Head(q), Tail(q)>>

\* a successor enqueued only when its pair was never enqueued
Enqueues_UnvisitedOnly(state, vs, new_visited, visited_squares) ==
    state \notin vs

\* if state not in visited_states or len(new_visited) > len(visited_squares)
Enqueues(state, vs, new_visited, visited_squares) ==
    state \notin vs \/ Cardinality(new_visited) > Cardinality(visited_squares)

\* for face in range(1, 7): ... ; returns <<queue, visited_states>>
RECURSIVE Expand(_, _, _, _, _, _)
Expand(face, e, q, vs, total, jmp) ==
    IF face > 6 THEN <<q, vs>>
    ELSE LET mv == simulate_move(e.pos, face, e.dice_type, total, jmp)
             new_visited == e.visited_squares \cup {mv[1]}
             state == <<mv[1], mv[2]>>
         IN  IF Enqueues(state, vs, new_visited, e.visited_squares)
             THEN Expand(face + 1, e,
                         Append(q, [pos |-> mv[1], dice_type |-> mv[2],
                                    rolls |-> Append(e.rolls, face),
                                    visited_squares |-> new_visited]),
                         vs \cup {state}, total, jmp)
             ELSE Expand(face + 1, e, q, vs, total, jmp)

\* if best_solution:
Truthy(best) == best # None /\ best[1] # <<>>


\* the new entry's coverage compared with >= : the last goal entry of
\* greatest coverage wins, not the first
BetterCoverage_OrEqual(covered, best) == covered >= best

\* a variant that keeps the first goal entry and never replaces it
BetterCoverage_FirstOnly(covered, best) == best = 0

\* coverage = len(visited_squares) / total_squares; if coverage > best_coverage.
\* Both quotients have the denominator total_squares > 0, so the numerators
\* are compared.
BetterCoverage(covered, best) == covered > best

\* one iteration of the while loop (lines 100-124)
BfsIterate ==
    /\ pc = "bfs"
    /\ LoopContinues(queue, iterations)
    /\ iterations' = iterations + 1
    /\ IF queue = <<>>
       THEN \* popleft on an empty deque raises IndexError
            /\ pc' = "raised"
            /\ UNCHANGED <<queue, visited_states, best_solution, best_coverage,
                           dequeued_goals, enqueued>>
       ELSE LET e == popleft(queue)[1]
                rest == popleft(queue)[2]
            IN  IF e.pos = total_squares
                THEN IF total_squares = 0
                     THEN \* len(visited_squares) / 0 raises ZeroDivisionError
                          /\ pc' = "raised"
                          /\ queue' = rest
                          /\ UNCHANGED <<visited_states, best_solution,
                                         best_coverage, dequeued_goals, enqueued>>
                     ELSE /\ pc' = "bfs"
                          /\ queue' = rest
                          /\ dequeued_goals' = Append(dequeued_goals, e)
                          /\ IF BetterCoverage(Cardinality(e.visited_squares),
                                               best_coverage)
                             THEN /\ best_coverage' = Cardinality(e.visited_squares)
                                  /\ best_solution' = <<e.rolls>>
                             ELSE UNCHANGED <<best_coverage, best_solution>>
                          /\ UNCHANGED <<visited_states, enqueued>>
                ELSE IF Len(e.rolls) > MaxRolls
                THEN /\ pc' = "bfs"
                     /\ queue' = rest
                     /\ UNCHANGED <<visited_states, best_solution, best_coverage,
                                    dequeued_goals, enqueued>>
                ELSE LET x == Expand(1, e, rest, visited_states, total_squares, jumps)
                     IN  /\ pc' = "bfs"
                         /\ queue' = x[1]
                         /\ visited_states' = x[2]
                         /\ enqueued' = enqueued \o
                              [i \in 1..(Len(queue') - Len(rest)) |->
                                 <<queue'[Len(rest) + i].pos,
                                   queue'[Len(rest) + i].dice_type>>]
                         /\ UNCHANGED <<best_solution, best_coverage, dequeued_goals>>
    /\ UNCHANGED <<total_squares, jumps, g_pos, g_dice, g_rolls, g_visited,
                   g_round, result, call, prev_result>>
    /\ UNCHANGED coord_vars
    /\ UNCHANGED parse_vars

\* the loop has ended and "if best_solution: return best_solution" returns
ReturnBest ==
    /\ pc = "bfs"
    /\ ~LoopContinues(queue, iterations)
    /\ Truthy(best_solution)
    /\ result' = best_solution[1]
    /\ pc' = "done"
    /\ UNCHANGED <<total_squares, jumps, queue, visited_states, best_solution,
                   best_coverage, iterations, g_pos, g_dice, g_rolls, g_visited,
                   g_round, call, prev_result, dequeued_goals, enqueued>>
    /\ UNCHANGED coord_vars
    /\ UNCHANGED parse_vars

\* the loop has ended with no solution: lines 131-133 set up the fallback
StartFallback ==
    /\ pc = "bfs"
    /\ ~LoopContinues(queue, iterations)
    /\ ~Truthy(best_solution)
    /\ g_pos' = 0
    /\ g_dice' = 0
    /\ g_rolls' = <<>>
    /\ g_visited' = {0}
    /\ g_round' = 0
    /\ pc' = "greedy"
    /\ UNCHANGED <<total_squares, jumps, queue, visited_states, best_solution,
                   best_coverage, iterations, result, call, prev_result,
                   dequeued_goals, enqueued>>
    /\ UNCHANGED coord_vars
    /\ UNCHANGED parse_vars

---------------------------------------------------------------------------
(* find_winning_solution: the greedy fallback *)

\* progress = next_pos if next_pos not in visited else next_pos * 0.5, plus
\* 1000 on the goal; kept doubled here so that it stays an integer
Progress2(next_pos, visited, total) ==
    (IF next_pos \notin visited THEN 2 * next_pos ELSE next_pos)
    + (IF next_pos = total THEN 2000 ELSE 0)

\* for face in range(1, 7): ... if progress > best_progress: ...
\* returns best_face
RECURSIVE PickFace(_, _, _, _, _, _, _, _)
PickFace(face, best_face, best_progress2, pos, dice_type, visited, total, jmp) ==
    IF face > 6 THEN best_face
    ELSE LET next_pos == simulate_move(pos, face, dice_type, total, jmp)[1]
             progress2 == Progress2(next_pos, visited, total)
         IN  IF progress2 > best_progress2
             THEN PickFace(face + 1, face, progress2, pos, dice_type, visited, total, jmp)
             ELSE PickFace(face + 1, best_face, best_progress2, pos, dice_type,
                           visited, total, jmp)

\* "while pos != total_squares", the rounds not counted
GreedyContinues_NoCap(round, pos, total) == pos # total

\* for _ in range(1000): if pos == total_squares: break
GreedyContinues(round, pos, total) == round < GreedyRounds /\ pos # total

\* one round of the for loop (lines 135-159)
GreedyRound ==
    /\ pc = "greedy"
    /\ GreedyContinues(g_round, g_pos, total_squares)
    /\ LET best_face == PickFace(1, 1, -2, g_pos, g_dice, g_visited,
                                 total_squares, jumps)
           mv == simulate_move(g_pos, best_face, g_dice, total_squares, jumps)
       IN  /\ g_rolls' = Append(g_rolls, best_face)
           /\ g_pos' = mv[1]
           /\ g_dice' = mv[2]
           /\ g_visited' = g_visited \cup {mv[1]}
    /\ g_round' = g_round + 1
    /\ UNCHANGED <<total_squares, jumps, pc, queue, visited_states, best_solution,
                   best_coverage, iterations, result, call, prev_result,
                   dequeued_goals, enqueued>>
    /\ UNCHANGED coord_vars
    /\ UNCHANGED parse_vars

\* return rolls if rolls else [1]
GreedyReturn ==
    /\ pc = "greedy"
    /\ ~GreedyContinues(g_round, g_pos, total_squares)
    /\ result' = IF g_rolls # <<>> THEN g_rolls ELSE <<1>>
    /\ pc' = "done"
    /\ UNCHANGED <<total_squares, jumps, queue, visited_states, best_solution,
                   best_coverage, iterations, g_pos, g_dice, g_rolls, g_visited,
                   g_round, call, prev_result, dequeued_goals, enqueued>>
    /\ UNCHANGED coord_vars
    /\ UNCHANGED parse_vars

---------------------------------------------------------------------------
(* the calls of find_winning_solution *)

\* the boards: total squares, jumps a mapping of squares to squares
JumpMaps(total) ==
    UNION {[D -> 1..total] : D \in {S \in SUBSET (1..total) :
                                      total <= SmallSquares
                                      \/ Cardinality(S) <= MaxJumps}}

\* two boards beyond the enumerated ones: ten squares without jumps, and
\* twenty squares with the snake 9 -> 2
ScenarioBoards ==
    {[total |-> 10, jmp |-> <<>>], [total |-> 20, jmp |-> [k \in {9} |-> 2]]}

\* lines 89-98: the locals of a call
Init ==
    /\ \/ /\ total_squares \in 0..MaxSquares
          /\ jumps \in JumpMaps(total_squares)
       \/ \E b \in ScenarioBoards : total_squares = b.total /\ jumps = b.jmp
    /\ pc = "bfs"
    /\ queue = <<StartEntry>>
    /\ visited_states = FreshVisitedStates({})
    /\ best_solution = None
    /\ best_coverage = FreshBestCoverage(0)
    /\ iterations = 0
    /\ g_pos = 0
    /\ g_dice = 0
    /\ g_rolls = <<>>
    /\ g_visited = {}
    /\ g_round = 0
    /\ result = <<>>
    /\ call = 1
    /\ prev_result = <<>>
    /\ dequeued_goals = <<>>
    /\ enqueued = << <<StartEntry.pos, StartEntry.dice_type>> >>
    /\ width_px = 0
    /\ height_px = 0
    /\ doc = <<>>
    /\ width = 0
    /\ height = 0
    /\ px = 0
    /\ py = 0
    /\ square = None

\* the caller calls find_winning_solution again on the same board:
\* lines 89-98 run anew
CallAgain ==
    /\ pc = "done"
    /\ call = 1
    /\ call' = 2
    /\ prev_result' = result
    /\ pc' = "bfs"
    /\ queue' = <<StartEntry>>
    /\ visited_states' = FreshVisitedStates(visited_states)
    /\ best_solution' = None
    /\ best_coverage' = FreshBestCoverage(best_coverage)
    /\ iterations' = 0
    /\ dequeued_goals' = <<>>
    /\ enqueued' = << <<StartEntry.pos, StartEntry.dice_type>> >>
    /\ UNCHANGED <<total_squares, jumps, g_pos, g_dice, g_rolls, g_visited,
                   g_round, result>>
    /\ UNCHANGED coord_vars
    /\ UNCHANGED parse_vars

Next ==
    \/ BfsIterate
    \/ ReturnBest
    \/ StartFallback
    \/ GreedyRound
    \/ GreedyReturn
    \/ CallAgain

Spec == Init /\ [][Next]_vars


---------------------------------------------------------------------------
(* Replaying rolls *)

\* the state <<pos, dice_type>> after replaying rolls from (0, Regular) with
\* simulate_move, as test_solution does
RECURSIVE Replay(_, _, _)
Replay(rolls, total, jmp) ==
    IF rolls = <<>> THEN <<0, 0>>
    ELSE LET s == Replay(SubSeq(rolls, 1, Len(rolls) - 1), total, jmp)
         IN  simulate_move(s[1], rolls[Len(rolls)], s[2], total, jmp)

\* the states that some sequence of exactly k faces leads to from (0, Regular)
RECURSIVE ReachAfter(_, _, _)
ReachAfter(k, total, jmp) ==
    IF k = 0 THEN {<<0, 0>>}
    ELSE {simulate_move(s[1], f, s[2], total, jmp) :
            s \in ReachAfter(k - 1, total, jmp), f \in Faces}

\* no sequence of fewer than n faces reaches position total
NoShorterWin(n, total, jmp) ==
    \A k \in 0..(n - 1) : \A s \in ReachAfter(k, total, jmp) : s[1] # total

\* the entries of the frontier
Frontier == {queue[i] : i \in 1..Len(queue)}

\* no move can end on total: total is a jump source that leads elsewhere and
\* no jump leads to it
GoalUnreachable ==
    /\ total_squares \in DOMAIN jumps
    /\ \A k \in DOMAIN jumps : jumps[k] # total_squares

---------------------------------------------------------------------------
(* C1: Minimality *)

\* C1 as stated: the sequence returned is a shortest winning sequence: no
\* strictly shorter sequence of faces reaches total_squares
C1_ReturnedIsShortest ==
    (pc = "done" /\ total_squares >= 1)
        => NoShorterWin(Len(result), total_squares, jumps)

\* C1 amended: the first goal entry the breadth-first loop dequeues is a
\* shortest winning sequence (the sequence returned is the dequeued goal entry
\* of greatest coverage, which may be longer)
C1_FirstGoalIsShortest ==
    (total_squares >= 1 /\ dequeued_goals # <<>>)
        => NoShorterWin(Len(dequeued_goals[1].rolls), total_squares, jumps)

\* a call has returned whose first dequeued goal entry took two rolls
C1_Witness ==
    /\ pc = "done"
    /\ dequeued_goals # <<>>
    /\ Len(dequeued_goals[1].rolls) = 2
    /\ result = dequeued_goals[1].rolls

---------------------------------------------------------------------------
(* C2: Replay correctness *)

\* C2: replaying the returned sequence ends on total_squares at its last roll
\* and is on total_squares after no earlier roll
C2_ReplayWins ==
    (pc = "done" /\ total_squares >= 1)
        => /\ Replay(result, total_squares, jumps)[1] = total_squares
           /\ \A n \in 0..(Len(result) - 1) :
                Replay(SubSeq(result, 1, n), total_squares, jumps)[1] # total_squares

---------------------------------------------------------------------------
(* C3: Unreachable goal *)

\* C3: when no move can end on total_squares, the empty sequence is returned
C3_UnreachableReturnsEmpty ==
    (pc = "done" /\ total_squares >= 1 /\ GoalUnreachable) => result = <<>>

---------------------------------------------------------------------------
(* C4: Bounded search *)

\* C4 as stated: the loop dequeues at most 2 * (total_squares + 1) entries
C4_ExpansionsWithinStateSpace == iterations <= 2 * (total_squares + 1)

\* C4 amended: the loop dequeues at most max_iterations entries
C4_ExpansionsWithinCap == iterations <= max_iterations

\* the loop has been stopped by the cap, its frontier not empty, after more
\* than 2 * (total_squares + 1) iterations
C4_Witness ==
    /\ pc = "bfs"
    /\ iterations = max_iterations
    /\ queue # <<>>
    /\ iterations > 2 * (total_squares + 1)

---------------------------------------------------------------------------
(* C5: Termination *)

\* the steps a call has taken: the loop iterations run so far, the greedy
\* rounds counted after the whole breadth-first loop
CallSteps ==
    IF pc = "bfs" THEN iterations
    ELSE IF pc = "greedy" THEN max_iterations + 1 + g_round
    ELSE max_iterations + GreedyRounds + 2

\* the steps both calls have taken
Steps == (call - 1) * (max_iterations + GreedyRounds + 3) + CallSteps

\* C5: every call on a board of at least one square terminates and returns:
\* it raises nothing, a call that has not returned can always take its next
\* step, every step adds to Steps, and Steps is bounded
C5_Terminates ==
    /\ [](total_squares >= 1 =>
            /\ pc # "raised"
            /\ pc = "done" \/ ENABLED Next
            /\ Steps <= 2 * (max_iterations + GreedyRounds + 3))
    /\ [][total_squares >= 1 => Steps' > Steps]_vars

\* the second call has returned on a board whose goal cannot be reached
C5_Witness == pc = "done" /\ call = 2 /\ total_squares >= 1 /\ GoalUnreachable

---------------------------------------------------------------------------
(* C6: Determinism *)

\* C6: the second call on a board returns what the first call returned
C6_SameResult == (pc = "done" /\ call = 2) => result = prev_result

\* the second call has returned a sequence found by the breadth-first loop
C6_Witness ==
    /\ pc = "done"
    /\ call = 2
    /\ Truthy(best_solution)
    /\ result = best_solution[1]
    /\ Len(result) >= 2


---------------------------------------------------------------------------
(* The move rule, as the specification words it *)

\* the die kind after rolling face: Regular and 6 gives Power, Power and 1
\* gives Regular, anything else keeps the kind
RuleDie(die, face) ==
    IF die = REGULAR /\ face = 6 THEN POWER
    ELSE IF die = POWER /\ face = 1 THEN REGULAR
    ELSE die

\* the die kind after a sequence of rolls, from the faces alone
RECURSIVE RuleDieAfter(_)
RuleDieAfter(rolls) ==
    IF rolls = <<>> THEN REGULAR
    ELSE RuleDie(RuleDieAfter(SubSeq(rolls, 1, Len(rolls) - 1)), rolls[Len(rolls)])

\* step, provisional position, reflection, then one jump looked up on the
\* reflected position
RulePos(pos, die, face, total, jmp) ==
    LET step == IF die = REGULAR THEN face ELSE 2^face
        provisional == pos + step
        final == IF provisional > total
                 THEN total - (provisional - total)
                 ELSE provisional
    IN  IF final \in DOMAIN jmp THEN jmp[final] ELSE final

\* the position after a sequence of rolls under the rule, each step taken
\* with the die kind in force before the roll
RECURSIVE RulePosAfter(_, _, _)
RulePosAfter(rolls, total, jmp) ==
    IF rolls = <<>> THEN 0
    ELSE LET before == SubSeq(rolls, 1, Len(rolls) - 1)
         IN  RulePos(RulePosAfter(before, total, jmp), RuleDieAfter(before),
                     rolls[Len(rolls)], total, jmp)

\* the game states the search holds: the frontier entries and the state of the
\* greedy fallback, each with the rolls that led to it
SearchStates ==
    {<<e.pos, e.dice_type, e.rolls>> : e \in Frontier}
        \cup {<<g_pos, g_dice, g_rolls>>}

---------------------------------------------------------------------------
(* C7: Move rule *)

\* C7: every position the search computes with simulate_move is the one the
\* move rule gives for the rolls that led to it (reflection first, then one
\* jump looked up on the reflected position)
C7_MoveRule ==
    \A s \in SearchStates : s[1] = RulePosAfter(s[3], total_squares, jumps)

\* a frontier entry whose single roll overshot, was reflected onto a jump
\* source and was moved to the jump's destination
C7_Witness ==
    \E e \in Frontier :
        /\ Len(e.rolls) = 1
        /\ e.rolls[1] > total_squares
        /\ 2 * total_squares - e.rolls[1] \in DOMAIN jumps
        /\ e.pos = jumps[2 * total_squares - e.rolls[1]]
        /\ e.pos # 2 * total_squares - e.rolls[1]

---------------------------------------------------------------------------
(* C8: Die-kind transition *)

\* C8: the die kind of every state of the search follows from the faces rolled
\* alone, and a roll made right after a Regular 6 moves by 2^face
C8_DieRule ==
    \A s \in SearchStates :
        /\ s[2] = RuleDieAfter(s[3])
        /\ \A n \in 2..Len(s[3]) :
             (s[3][n - 1] = 6 /\ RuleDieAfter(SubSeq(s[3], 1, n - 2)) = REGULAR)
                => Replay(SubSeq(s[3], 1, n), total_squares, jumps)[1]
                     = RulePos(Replay(SubSeq(s[3], 1, n - 1), total_squares, jumps)[1],
                               POWER, s[3][n], total_squares, jumps)

\* a frontier entry that rolled a Regular 6 onto a jump source and then a 3
\* with the Power die
C8_Witness ==
    \E e \in Frontier :
        /\ Len(e.rolls) = 2
        /\ e.rolls[1] = 6
        /\ e.rolls[2] = 3
        /\ e.dice_type = POWER
        /\ 2 * total_squares - 6 \in DOMAIN jumps

---------------------------------------------------------------------------
(* C9: Position range *)

---------------------------------------------------------------------------
(* coord_to_square *)

\* odd rows numbered left to right like the even ones
coord_to_square_NoReversal(x, y, w, h) ==
    IF x < 0 \/ y < 0 THEN None
    ELSE LET col == x \div SQUARE_SIZE
             row_from_top == y \div SQUARE_SIZE
             row == h - 1 - row_from_top
         IN  IF row < 0 \/ col < 0 \/ row >= h \/ col >= w THEN None
             ELSE <<row * w + col + 1>>

\* the column not tested against the width
coord_to_square_NoWidthCheck(x, y, w, h) ==
    IF x < 0 \/ y < 0 THEN None
    ELSE LET col == x \div SQUARE_SIZE
             row_from_top == y \div SQUARE_SIZE
             row == h - 1 - row_from_top
         IN  IF row < 0 \/ col < 0 \/ row >= h THEN None
             ELSE IF row % 2 = 0
                  THEN <<row * w + col + 1>>
                  ELSE <<row * w + (w - 1 - col) + 1>>

\* returns None, or <<square>>. x and y are whole pixels: x // SQUARE_SIZE of
\* a float is the floor, which a point shares with the whole pixel below it
coord_to_square(x, y, w, h) ==
    IF x < 0 \/ y < 0 THEN None
    ELSE LET col == x \div SQUARE_SIZE
             row_from_top == y \div SQUARE_SIZE
             row == h - 1 - row_from_top
         IN  IF row < 0 \/ col < 0 \/ row >= h \/ col >= w THEN None
             ELSE IF row % 2 = 0
                  THEN <<row * w + col + 1>>
                  ELSE <<row * w + (w - 1 - col) + 1>>

\* a board of width x height squares, no point mapped yet
CoordInit ==
    /\ width \in 1..MaxWidth
    /\ height \in 1..MaxHeight
    /\ px = 0
    /\ py = 0
    /\ square = None
    /\ pc = "coord"
    /\ total_squares = 0
    /\ jumps = <<>>
    /\ queue = <<>>
    /\ visited_states = {}
    /\ best_solution = None
    /\ best_coverage = 0
    /\ iterations = 0
    /\ g_pos = 0
    /\ g_dice = 0
    /\ g_rolls = <<>>
    /\ g_visited = {}
    /\ g_round = 0
    /\ result = <<>>
    /\ call = 1
    /\ prev_result = <<>>
    /\ dequeued_goals = <<>>
    /\ enqueued = <<>>
    /\ width_px = 0
    /\ height_px = 0
    /\ doc = <<>>

\* coord_to_square(x, y, width, height) for a point on, or one pixel off, the
\* drawing
CoordToSquare ==
    /\ pc = "coord"
    /\ \E x \in -1..(width * SQUARE_SIZE + 1), y \in -1..(height * SQUARE_SIZE + 1) :
          /\ px' = x
          /\ py' = y
          /\ square' = coord_to_square(x, y, width, height)
    /\ pc' = "mapped"
    /\ UNCHANGED <<width, height>>
    /\ UNCHANGED <<total_squares, jumps, queue, visited_states, best_solution,
                   best_coverage, iterations, g_pos, g_dice, g_rolls, g_visited,
                   g_round, result, call, prev_result, dequeued_goals, enqueued>>
    /\ UNCHANGED parse_vars

CoordNext == CoordToSquare

CoordSpec == CoordInit /\ [][CoordNext]_vars

---------------------------------------------------------------------------
(* C10: Boustrophedon mapping *)

\* the cell <<column from the left, row from the bottom>> a point lies in
CellOfPoint(x, y, h) == <<x \div SQUARE_SIZE, h - 1 - (y \div SQUARE_SIZE)>>

\* the cell the boustrophedon numbering gives square s: rows of w squares
\* from the bottom, even rows left to right, odd rows right to left
CellOfSquare(s, w) ==
    LET row == (s - 1) \div w
        k == (s - 1) % w
    IN  <<IF row % 2 = 0 THEN k ELSE w - 1 - k, row>>

\* the point lies on the grid
OnGrid(x, y, w, h) ==
    /\ x >= 0
    /\ y >= 0
    /\ CellOfPoint(x, y, h)[1] \in 0..(w - 1)
    /\ CellOfPoint(x, y, h)[2] \in 0..(h - 1)

\* C10: a point off the grid maps to no square; a point on the grid maps to
\* the one square of 1..width*height whose boustrophedon cell holds the point
\* (so every point of the cell of square s maps back to s, and the cells map
\* one-to-one onto the squares); square 1 is the bottom-left cell; the 3x2
\* board reads 1,2,3 along the bottom and 6,5,4 along the top from the left,
\* and pixel (0, 32) is square 1
C10_Boustrophedon ==
    pc = "mapped" =>
        LET cell == CellOfPoint(px, py, height)
        IN  /\ ~OnGrid(px, py, width, height) => square = None
            /\ OnGrid(px, py, width, height) =>
                 /\ \E s \in 1..(width * height) : CellOfSquare(s, width) = cell
                 /\ \A s \in 1..(width * height) :
                      CellOfSquare(s, width) = cell <=> square = <<s>>
            /\ (OnGrid(px, py, width, height) /\ cell = <<0, 0>>) => square = <<1>>
            /\ (width = 3 /\ height = 2 /\ OnGrid(px, py, width, height)) =>
                 square = << (<< <<1, 2, 3>>, <<6, 5, 4>> >>[cell[2] + 1])[cell[1] + 1] >>
            /\ (width = 3 /\ height = 2 /\ px = 0 /\ py = 32) => square = <<1>>

\* on the 3x2 board a point of the top row's left cell has been mapped to 6
C10_Witness ==
    /\ pc = "mapped"
    /\ width = 3
    /\ height = 2
    /\ CellOfPoint(px, py, height) = <<0, 1>>
    /\ px > 0
    /\ square = <<6>>

---------------------------------------------------------------------------
(* C16, C17: which dequeued goal entry is returned *)

\* len(visited_squares) of a frontier entry (line 106, before the division)
CoverageOf(e) == Cardinality(e.visited_squares)

\* the index in dequeued_goals of the earliest entry of greatest coverage
BestGoalIndex ==
    CHOOSE i \in 1..Len(dequeued_goals) :
        /\ \A j \in 1..Len(dequeued_goals) :
              CoverageOf(dequeued_goals[j]) <= CoverageOf(dequeued_goals[i])
        /\ \A j \in 1..(i - 1) :
              CoverageOf(dequeued_goals[j]) < CoverageOf(dequeued_goals[i])

\* C16 as stated: the sequence returned is the roll prefix of the first goal
\* entry dequeued; goal entries dequeued later never replace it.
C16_FirstGoalWins ==
    (pc = "done" /\ dequeued_goals # <<>>) => result = dequeued_goals[1].rolls

\* C16 amended: an iteration that dequeues a goal entry replaces the held
\* sequence by that entry's rolls exactly when the entry's path visited
\* strictly more distinct positions than the held one (the first goal entry
\* always does); an entry of equal or smaller coverage leaves it alone, and
\* the sequence held when the loop ends is the one returned.
C16_ReplacedOnlyByGreaterCoverage ==
    /\ [][(/\ pc = "bfs"
           /\ iterations' = iterations + 1
           /\ total_squares >= 1
           /\ queue # <<>>
           /\ Head(queue).pos = total_squares)
          => IF CoverageOf(Head(queue)) > best_coverage
             THEN /\ best_solution' = <<Head(queue).rolls>>
                  /\ best_coverage' = CoverageOf(Head(queue))
             ELSE UNCHANGED <<best_solution, best_coverage>>]_vars
    /\ []((pc = "done" /\ dequeued_goals # <<>>) => <<result>> = best_solution)

\* a call returned a goal entry that was dequeued after the first one
C16_Witness ==
    /\ pc = "done"
    /\ Len(dequeued_goals) >= 2
    /\ result # dequeued_goals[1].rolls
    /\ \E i \in 2..Len(dequeued_goals) : result = dequeued_goals[i].rolls

\* C17: when the breadth-first loop dequeued at least one goal entry, the
\* sequence returned is that of the earliest dequeued goal entry whose path
\* visited the largest number of distinct positions.
C17_CoveragePriority ==
    (pc = "done" /\ dequeued_goals # <<>>)
        => result = dequeued_goals[BestGoalIndex].rolls

\* a call returned the earlier of two goal entries of equal, greatest
\* coverage, after replacing a first goal entry of smaller coverage
C17_Witness ==
    /\ pc = "done"
    /\ Len(dequeued_goals) >= 3
    /\ BestGoalIndex > 1
    /\ \E j \in (BestGoalIndex + 1)..Len(dequeued_goals) :
          CoverageOf(dequeued_goals[j]) = CoverageOf(dequeued_goals[BestGoalIndex])

---------------------------------------------------------------------------
(* C18: the board of no squares *)

\* C18 as stated: on total_squares = 0 the call raises no error and returns
\* the empty sequence.
C18_DegenerateReturnsEmpty ==
    total_squares = 0 => (pc # "raised" /\ (pc = "done" => result = <<>>))

---------------------------------------------------------------------------
(* C13: the reflection scenario *)

\* the frontier entries of the ten-square board without jumps that were
\* reached by rolling 6 and then 6
SixSixEntries ==
    {e \in Frontier : total_squares = 10 /\ jumps = <<>> /\ e.rolls = <<6, 6>>}

\* C13 as stated: on ten squares without jumps, rolling 6 and then 6 from
\* (0, Regular) ends on position 8 (provisional 12 reflected).
C13_ReflectsToEight ==
    \A e \in SixSixEntries : e.pos = 8

\* C13 amended: on ten squares without jumps the first 6 leads to position 6
\* and switches the die to Power, so the second 6 moves 2^6 = 64 squares:
\* the provisional position is 70, which reflects to 10 - 60 = -50.
C13_SecondSixIsPower ==
    /\ \A e \in Frontier :
          (total_squares = 10 /\ jumps = <<>> /\ e.rolls = <<6>>)
              => (e.pos = 6 /\ e.dice_type = POWER)
    /\ \A e \in SixSixEntries :
          /\ e.pos = total_squares - ((6 + 2^6) - total_squares)
          /\ e.pos = -50
          /\ e.dice_type = POWER

\* the search holds the entry reached by rolling 6 and then 6
C13_Witness ==
    SixSixEntries # {}

---------------------------------------------------------------------------
(* C14: the jump scenario *)

\* no jump destination is itself a jump source
NoChainedJumps ==
    \A k \in DOMAIN jumps : jumps[k] \notin DOMAIN jumps

\* the positions that replaying the returned sequence reports, roll by roll
ReplayedPositions ==
    {Replay(SubSeq(result, 1, k), total_squares, jumps)[1] : k \in 1..Len(result)}

\* C14: when no jump destination is itself a jump source, no state the search
\* holds rests on a jump source, and replaying the returned sequence never
\* reports a jump source after any roll.
C14_NeverRestsOnSource ==
    NoChainedJumps =>
        /\ \A s \in SearchStates : s[1] \notin DOMAIN jumps
        /\ pc = "done" => ReplayedPositions \cap DOMAIN jumps = {}

\* on twenty squares with the snake 9 -> 2, the search holds the entry that
\* rolled 3 and then 6, landed on 9 and was moved to 2
C14_Witness ==
    /\ total_squares = 20
    /\ DOMAIN jumps = {9}
    /\ jumps[9] = 2
    /\ \E e \in Frontier : e.rolls = <<3, 6>> /\ e.pos = 2

---------------------------------------------------------------------------
(* C15: which successors are enqueued *)

\* the pairs enqueued so far by this call
EnqueuedPairs == {enqueued[i] : i \in 1..Len(enqueued)}

\* this step is an iteration of the loop that expands the entry it dequeues
IsExpansion ==
    /\ pc = "bfs"
    /\ iterations' = iterations + 1
    /\ queue # <<>>
    /\ Head(queue).pos # total_squares
    /\ Len(Head(queue).rolls) <= MaxRolls

\* C15 as stated: each (position, die kind) pair is added to the frontier at
\* most once during one call.
C15_NoRevisit ==
    \A i, j \in 1..Len(enqueued) : enqueued[i] = enqueued[j] => i = j

\* C15 amended: visited_states holds exactly the pairs enqueued so far; a
\* successor is enqueued when its pair was never enqueued before, and a
\* successor whose pair was already enqueued is enqueued again exactly when
\* its position is new to the path of the entry being expanded.
C15_ReenqueuedOnlyOnNewPosition ==
    /\ [](pc \in {"bfs", "greedy", "done"} => visited_states = EnqueuedPairs)
    /\ [][IsExpansion =>
            LET e == Head(queue)
                added == {enqueued'[k] : k \in (Len(enqueued) + 1)..Len(enqueued')}
            IN  /\ \A f \in Faces :
                      LET mv == simulate_move(e.pos, f, e.dice_type,
                                              total_squares, jumps)
                      IN  <<mv[1], mv[2]>> \in added
                              <=> (\/ <<mv[1], mv[2]>> \notin EnqueuedPairs
                                   \/ mv[1] \notin e.visited_squares)
                /\ \A k \in (Len(enqueued) + 1)..Len(enqueued') :
                      (\E j \in 1..(k - 1) : enqueued'[j] = enqueued'[k])
                          => enqueued'[k][1] \notin e.visited_squares
                /\ \A p \in added :
                      \E f \in Faces :
                          p = simulate_move(e.pos, f, e.dice_type,
                                            total_squares, jumps)]_vars

\* a pair was enqueued a second time by this call
C15_Witness ==
    /\ pc = "bfs"
    /\ \E i, j \in 1..Len(enqueued) : i < j /\ enqueued[i] = enqueued[j]

---------------------------------------------------------------------------
(* parse_svg_board *)

\* the value of a coordinate attribute: a number of whole pixels, the text
\* "inf", a text that float() rejects, or no attribute at all
Num(v) == [k |-> "num", v |-> v]
Inf == [k |-> "inf", v |-> 0]
Text == [k |-> "text", v |-> 0]
Missing == [k |-> "missing", v |-> 0]

\* <line stroke="red" x1 y1 x2 y2/> from point p to point q
Line(p, q) ==
    [tag |-> "line", stroke |-> "red",
     x1 |-> Num(p[1]), y1 |-> Num(p[2]), x2 |-> Num(q[1]), y2 |-> Num(q[2])]

\* end points of the segments drawn: three inside the first two columns and
\* rows of the drawing, one left of it
Points == {<<8, 8>>, <<40, 8>>, <<40, 40>>, <<-8, 8>>}

\* the elements a document is made of: the segments between the points, and
\* variants of one segment with a coordinate missing, not a number or
\* infinite, without a visible stroke, or under another tag
Elements ==
    LET l == Line(<<8, 8>>, <<40, 40>>)
    IN  {Line(p, q) : p, q \in Points}
            \cup {[l EXCEPT !.x1 = Missing], [l EXCEPT !.y2 = Text],
                  [l EXCEPT !.x2 = Inf], [l EXCEPT !.stroke = "none"],
                  [l EXCEPT !.stroke = ""], [l EXCEPT !.tag = "rect"],
                  [l EXCEPT !.tag = "polyline"]}

\* round(px / SQUARE_SIZE): Python rounds a half to the even neighbour
PyRound(n, d) ==
    LET q == n \div d
        r == n % d
    IN  IF 2 * r < d THEN q
        ELSE IF 2 * r > d THEN q + 1
        ELSE IF q % 2 = 0 THEN q ELSE q + 1

\* elem.tag.endswith('line')
EndsWithLine(tag) == tag \in {"line", "polyline"}

\* stroke = elem.attrib.get('stroke', '').strip();
\* if stroke and stroke.lower() != 'none'
HasStroke(stroke) == stroke # "" /\ stroke # "none"

\* the exception that float(elem.attrib[name]) raises, "" for none
FloatRaises(a) ==
    IF a.k = "missing" THEN "KeyError"
    ELSE IF a.k = "text" THEN "ValueError"
    ELSE ""

\* coord_to_square on a parsed point raises ValueError when it reaches
\* int(inf // SQUARE_SIZE), that is int(nan), past the test x < 0 or y < 0
CoordRaises(xa, ya) ==
    /\ ~(xa.k = "num" /\ xa.v < 0)
    /\ ~(ya.k = "num" /\ ya.v < 0)
    /\ (xa.k = "inf" \/ ya.k = "inf")

\* coord_to_square on a parsed point that does not raise
SquareOf(xa, ya, w, h) ==
    IF xa.k = "num" /\ ya.k = "num" THEN coord_to_square(xa.v, ya.v, w, h)
    ELSE None

\* lines 26-40 for one element: the exception raised inside the try ("" for
\* none) and the jump <<start_sq, end_sq>> to store (None for none)
elem_outcome(el, w, h) ==
    IF ~EndsWithLine(el.tag) \/ ~HasStroke(el.stroke)
    THEN [exc |-> "", jump |-> None]
    ELSE     IF FloatRaises(el.x1) # "" THEN [exc |-> FloatRaises(el.x1), jump |-> None]
             ELSE IF FloatRaises(el.y1) # "" THEN [exc |-> FloatRaises(el.y1), jump |-> None]
             ELSE IF FloatRaises(el.x2) # "" THEN [exc |-> FloatRaises(el.x2), jump |-> None]
             ELSE IF FloatRaises(el.y2) # "" THEN [exc |-> FloatRaises(el.y2), jump |-> None]
             ELSE IF CoordRaises(el.x1, el.y1) \/ CoordRaises(el.x2, el.y2)
             THEN [exc |-> "ValueError", jump |-> None]
             ELSE LET start_sq == SquareOf(el.x1, el.y1, w, h)
                      end_sq == SquareOf(el.x2, el.y2, w, h)
                  IN  IF /\ start_sq # None /\ start_sq # <<0>>
                         /\ end_sq # None /\ end_sq # <<0>>
                         /\ start_sq # end_sq
                      THEN [exc |-> "", jump |-> <<start_sq[1], end_sq[1]>>]
                      ELSE [exc |-> "", jump |-> None]

\* only the first segment of a source stored
setitem_KeepFirst(d, key, value) ==
    [k \in DOMAIN d \cup {key} |-> IF k \in DOMAIN d THEN d[k] ELSE value]

\* jumps[start_sq] = end_sq
setitem(d, key, value) ==
    [k \in DOMAIN d \cup {key} |-> IF k = key THEN value ELSE d[k]]

\* no exception caught
Caught_Nothing == {}

\* except (ValueError, KeyError)
Caught == {"ValueError", "KeyError"}

\* lines 13-22: the extents are read and the board is sized
ParseInit ==
    /\ width_px \in {(SQUARE_SIZE \div 2) * k : k \in (-2)..MaxExtent}
    /\ height_px \in {(SQUARE_SIZE \div 2) * k : k \in (-2)..MaxExtent}
    /\ width = PyRound(width_px, SQUARE_SIZE)
    /\ height = PyRound(height_px, SQUARE_SIZE)
    /\ total_squares = width * height
    /\ jumps = <<>>
    /\ doc = <<>>
    /\ pc = "parse"
    /\ px = 0
    /\ py = 0
    /\ square = None
    /\ queue = <<>>
    /\ visited_states = {}
    /\ best_solution = None
    /\ best_coverage = 0
    /\ iterations = 0
    /\ g_pos = 0
    /\ g_dice = 0
    /\ g_rolls = <<>>
    /\ g_visited = {}
    /\ g_round = 0
    /\ result = <<>>
    /\ call = 1
    /\ prev_result = <<>>
    /\ dequeued_goals = <<>>
    /\ enqueued = <<>>

\* one iteration of "for elem in tree.iter()" (lines 25-40)
ParseElement ==
    /\ pc = "parse"
    /\ Len(doc) < MaxLines
    /\ \E el \in Elements :
          LET o == elem_outcome(el, width, height)
          IN  /\ doc' = Append(doc, el)
              /\ IF o.exc # "" /\ o.exc \notin Caught
                 THEN pc' = "raised" /\ UNCHANGED jumps
                 ELSE /\ pc' = "parse"
                      /\ jumps' = IF o.jump = None THEN jumps
                                  ELSE setitem(jumps, o.jump[1], o.jump[2])
    /\ UNCHANGED <<width_px, height_px, width, height, total_squares, px, py, square>>
    /\ UNCHANGED <<queue, visited_states, best_solution, best_coverage,
                   iterations, g_pos, g_dice, g_rolls, g_visited, g_round,
                   result, call, prev_result, dequeued_goals, enqueued>>

\* the loop is over: return width_squares, height_squares, total_squares,
\* jumps (line 42)
ParseReturn ==
    /\ pc = "parse"
    /\ pc' = "returned"
    /\ UNCHANGED <<width_px, height_px, doc, width, height, total_squares,
                   jumps, px, py, square>>
    /\ UNCHANGED <<queue, visited_states, best_solution, best_coverage,
                   iterations, g_pos, g_dice, g_rolls, g_visited, g_round,
                   result, call, prev_result, dequeued_goals, enqueued>>

ParseNext ==
    \/ ParseElement
    \/ ParseReturn

ParseSpec == ParseInit /\ [][ParseNext]_vars

---------------------------------------------------------------------------
(* C11: Jump validity *)

\* C11: after every element processed, every key and every value of jumps is
\* a square id in 1..total_squares and no key maps to itself.
C11_JumpsValid ==
    \A k \in DOMAIN jumps :
        /\ k \in 1..total_squares
        /\ jumps[k] \in 1..total_squares
        /\ jumps[k] # k

\* on a board of two by two squares, every element of the document was a
\* segment that stored a jump of its own source square
C11_Witness ==
    /\ pc = "parse"
    /\ Len(doc) = MaxLines
    /\ Cardinality(DOMAIN jumps) = 2
    /\ total_squares = 4

---------------------------------------------------------------------------
(* C12: Board size *)

\* C12 as stated: every board returned has width >= 1 and height >= 1, hence
\* total_squares >= 1, with width = round(width_px / 32) and
\* height = round(height_px / 32).
C12_BoardSizePositive ==
    pc = "returned" =>
        /\ width = PyRound(width_px, SQUARE_SIZE)
        /\ height = PyRound(height_px, SQUARE_SIZE)
        /\ width >= 1
        /\ height >= 1
        /\ total_squares >= 1

---------------------------------------------------------------------------
(* C19: Document-order precedence *)

\* the jump <<source, destination>> of an accepted segment, None otherwise
AcceptedJump(el) == elem_outcome(el, width, height).jump

\* the places in the document of the accepted segments that start in square s
SegmentsFrom(s) ==
    {i \in 1..Len(doc) : AcceptedJump(doc[i]) # None /\ AcceptedJump(doc[i])[1] = s}

\* the greatest member of a non-empty set of numbers
Last(S) == CHOOSE i \in S : \A j \in S : j <= i

\* C19: jumps holds, for every source square of an accepted segment, the
\* destination of the last accepted segment of the document that starts in
\* that square, and holds nothing for any other square.
C19_LastSegmentWins ==
    /\ DOMAIN jumps = {AcceptedJump(doc[i])[1] :
                         i \in {j \in 1..Len(doc) : AcceptedJump(doc[j]) # None}}
    /\ \A s \in DOMAIN jumps :
          jumps[s] = AcceptedJump(doc[Last(SegmentsFrom(s))])[2]

\* a returned board whose document had two accepted segments from the same
\* source to different destinations
C19_Witness ==
    /\ pc = "returned"
    /\ \E s \in DOMAIN jumps :
          \E i, j \in SegmentsFrom(s) :
              /\ i < j
              /\ AcceptedJump(doc[i])[2] # AcceptedJump(doc[j])[2]
              /\ jumps[s] = AcceptedJump(doc[j])[2]

---------------------------------------------------------------------------
(* C20: Per-line tolerance *)

\* a coordinate attribute that is missing or is not a finite number
BadCoordinate(a) == a.k # "num"

\* a segment with a missing or non-numeric coordinate, or with an end point
\* outside the grid
Faulty(el) ==
    /\ el.tag = "line"
    /\ \/ \E a \in {el.x1, el.y1, el.x2, el.y2} : BadCoordinate(a)
       \/ ~OnGrid(el.x1.v, el.y1.v, width, height)
       \/ ~OnGrid(el.x2.v, el.y2.v, width, height)

NotFaulty(el) == ~Faulty(el)

\* the jumps that the loop of lines 25-40 builds from the elements d
RECURSIVE JumpsAfter(_)
JumpsAfter(d) ==
    IF d = <<>> THEN <<>>
    ELSE LET before == JumpsAfter(SubSeq(d, 1, Len(d) - 1))
             o == AcceptedJump(d[Len(d)])
         IN  IF o = None THEN before ELSE setitem(before, o[1], o[2])

\* C20: a segment with a missing or non-numeric coordinate, or with an end
\* point outside the grid, raises no error and leaves jumps as it was; jumps
\* is what the document without such segments gives.
C20_FaultySegmentSkipped ==
    /\ [](pc # "raised")
    /\ [](jumps = JumpsAfter(SelectSeq(doc, NotFaulty)))
    /\ [][(doc' # doc /\ Faulty(doc'[Len(doc')]))
             => (jumps' = jumps /\ pc' = "parse")]_vars

\* a returned board with a stored jump, whose document also held a segment
\* with a missing or non-numeric coordinate
C20_Witness ==
    /\ pc = "returned"
    /\ jumps # <<>>
    /\ \E i \in 1..Len(doc) :
          /\ doc[i].tag = "line"
          /\ \E a \in {doc[i].x1, doc[i].y1, doc[i].x2, doc[i].y2} : BadCoordinate(a)

====
